---- MODULE Spec2Model ----
(***************************************************************************)
(* A model of the Fivetran orchestration code of src/src/fivetran.rs:      *)
(* the run (setup_sync), its schema filter (pick_schema), the teardown of  *)
(* a run (cleanup), the retention sweeper (cleanup_old) and its age test   *)
(* (is_old), and of main (src/src/main.rs), which awaits them in turn.     *)
(*                                                                         *)
(* The remote platform is the environment.  Every awaited call is one      *)
(* step of the program: the request is issued, the response is drawn from  *)
(* what the platform can answer, and the `?` of the call site either       *)
(* continues or makes the function return the error.                       *)
(***************************************************************************)
EXTENDS Integers, Sequences, FiniteSets, TLC

VARIABLES
    pc,          \* position of setup_sync: the next statement to run
    group,       \* `group.id` of setup_sync ("" before create_group returned)
    destination, \* `destination.id` of setup_sync
    connector,   \* the local `connector` of setup_sync (latest record read)
    schema,      \* the local `schema` of setup_sync (reload's response)
    request,     \* the UpdateConnectorSchemaRequest sent by the schema update
    issued,      \* every request sent so far, in order, with its outcome
    platform,    \* the remote platform: the statuses it is going to report
    logged,      \* the outcome line setup_sync logged ("failed"/"succeeded")
    result,      \* what setup_sync returned to its caller
    now,         \* Utc::now(), in seconds
    created_at,  \* the created_at string handed to is_old, as parsed
    classified,  \* the answer of is_old
    remote,      \* the resources that exist on the platform
    response,    \* the HTTP response to the last request of a teardown
    listed,      \* the `items` of the list a teardown loop iterates over
    cursor,      \* how many of `listed` the loop has been through
    fetched,     \* the `group` get_group returned for the current item
    judged,      \* the answers of is_old so far in a sweep, in order
    main,        \* position of main: the call it is awaiting
    returned,    \* what the calls main awaited so far returned, in order
    clients,     \* how many times Client::new() ran in this process
    parked       \* the position of the process that is not scheduled

vars == << pc, group, destination, connector, schema, request, issued,
           platform, logged, result, now, created_at, classified,
           remote, response, listed, cursor, fetched, judged,
           main, returned, clients, parked >>

runVars == << pc, group, destination, connector, schema, request, issued,
              platform, logged, result >>
ageVars == << now, created_at, classified >>
sweepVars == << remote, response, listed, cursor, fetched, judged >>
processVars == << main, returned, clients, parked >>

(***************************************************************************)
(* Bounds of the model.                                                    *)
(***************************************************************************)
MaxSchemas == 2     \* schemas in a discovered tree
MaxTables == 2      \* tables in a discovered tree
MaxColumns == 1     \* columns in a discovered tree
MaxStatuses == 3    \* length of the setup statuses the platform reports
MaxSyncStatuses == 2 \* length of the sync statuses the platform reports
MaxFetches == 4     \* re-fetches of one wait loop the model follows
MaxAgeMinutes == 17 \* the clock runs from 0 to this many minutes
MaxResources == 3   \* resources on the platform when a teardown starts

(***************************************************************************)
(* Option<T>: None, or Some(v).                                            *)
(***************************************************************************)
None == << "None" >>
Some(v) == << "Some", v >>
OptionBool == {None, Some(TRUE), Some(FALSE)}

(***************************************************************************)
(* The schema configuration tree.                                          *)
(***************************************************************************)
SchemaNames == {"public", "other"}
TableNames == {"Person", "Movie"}
ColumnNames == {"username", "id"}

\* const SKIP_COLUMNS of pick_schema
SKIP_COLUMNS == { << "public", "Person", "username" >> }

\* struct ColumnConfigResponse (name_in_destination is not read by the run)
ColumnConfigResponse ==
    [enabled : BOOLEAN, hashed : BOOLEAN, is_primary_key : OptionBool]

\* The maps (HashMap<String, V>) from exactly k of the Names to Vals.
MapsOf(Names, Vals, k) ==
    UNION { [D -> Vals] : D \in {X \in SUBSET Names : Cardinality(X) = k} }

\* struct TableConfigResponse: the tables with c columns
TableConfigResponse(c) ==
    [enabled : BOOLEAN, columns : MapsOf(ColumnNames, ColumnConfigResponse, c)]

\* The ways to give c columns to the first and the second of two maps.
Splits(c) == { << a, c - a >> : a \in 0..c }

\* The maps of tables with t tables and c columns in all.
TableMaps(t, c) ==
    CASE t = 0 -> IF c = 0 THEN { << >> } ELSE {}
      [] t = 1 -> MapsOf(TableNames, TableConfigResponse(c), 1)
      [] t = 2 -> UNION { [Person : TableConfigResponse(q[1]),
                           Movie : TableConfigResponse(q[2])] :
                          q \in Splits(c) }
      [] OTHER -> {}

\* struct SchemaConfigResponse: the schemas with t tables and c columns
SchemaConfigResponse(t, c) == [enabled : BOOLEAN, tables : TableMaps(t, c)]

\* The maps of schemas with n schemas, at most MaxTables tables and at
\* most MaxColumns columns in all.
SchemaMaps(n) ==
    CASE n = 0 -> { << >> }
      [] n = 1 -> UNION { MapsOf(SchemaNames, SchemaConfigResponse(t, c), 1) :
                             t \in 0..MaxTables, c \in 0..MaxColumns }
      [] n = 2 -> UNION { [public : SchemaConfigResponse(q[1][1], q[2][1]),
                           other : SchemaConfigResponse(q[1][2], q[2][2])] :
                          q \in UNION { Splits(t) \X Splits(c) :
                                           t \in 0..MaxTables,
                                           c \in 0..MaxColumns } }
      [] OTHER -> {}

\* struct StandardConfigResponse: the trees schema discovery can return,
\* with at most n schemas, within the bounds.
StandardConfigResponse(n) ==
    [schemas : UNION { SchemaMaps(k) : k \in 0..n }]

EmptySchemas == << >>

\* pick_column without the SKIP_COLUMNS test of lines 91-92
pick_column_no_skip(s_name, t_name, c_name, c) ==
    [enabled |-> c.enabled,
     hashed |-> Some(FALSE),
     is_primary_key |-> c.is_primary_key]

\* pick_column handing the discovered hashed flag on
pick_column_keeps_hashed(s_name, t_name, c_name, c) ==
    [enabled |-> c.enabled /\ << s_name, t_name, c_name >> \notin SKIP_COLUMNS,
     hashed |-> Some(c.hashed),
     is_primary_key |-> c.is_primary_key]

\* The body of the innermost closure of pick_schema: one column.
pick_column(s_name, t_name, c_name, c) ==
    LET enabled == c.enabled /\ << s_name, t_name, c_name >> \notin SKIP_COLUMNS
    IN  [enabled |-> enabled,
         hashed |-> Some(FALSE),
         is_primary_key |-> c.is_primary_key]

\* pick_table handing the discovered enabled flag of the table on
pick_table_keeps_enabled(s_name, t_name, t) ==
    [enabled |-> t.enabled,
     columns |-> [c_name \in DOMAIN t.columns |->
                     pick_column(s_name, t_name, c_name, t.columns[c_name])]]

\* The middle closure of pick_schema: one table.
pick_table(s_name, t_name, t) ==
    [enabled |-> TRUE,
     columns |-> [c_name \in DOMAIN t.columns |->
                     pick_column(s_name, t_name, c_name, t.columns[c_name])]]

\* pick_schema leaving out the schemas discovery reported as disabled
pick_schema_drops_disabled(sch) ==
    [s_name \in {s \in DOMAIN sch.schemas : sch.schemas[s].enabled} |->
        [enabled |-> TRUE,
         tables |-> [t_name \in DOMAIN sch.schemas[s_name].tables |->
                        pick_table(s_name, t_name,
                                   sch.schemas[s_name].tables[t_name])]]]

\* fn pick_schema
pick_schema(sch) ==
    [s_name \in DOMAIN sch.schemas |->
        [enabled |-> TRUE,
         tables |-> [t_name \in DOMAIN sch.schemas[s_name].tables |->
                        pick_table(s_name, t_name,
                                   sch.schemas[s_name].tables[t_name])]]]

(***************************************************************************)
(* The transport: one awaited call and the decoding of its response.       *)
(***************************************************************************)
\* What can come back from `client.request(..).send().await`: the send
\* fails, the body is no ApiResponse envelope, the envelope has no data,
\* the envelope has data.
Responses == {"send_error", "decode_error", "no_data", "data"}

\* async fn receive_api_response_maybe
receive_api_response_maybe(r) ==
    IF r = "decode_error"
    THEN [ok |-> FALSE, data |-> FALSE, error |-> "request failed"]
    ELSE [ok |-> TRUE, data |-> (r = "data"), error |-> ""]

\* Absent data taken for an empty payload.
receive_api_response_lenient(r) ==
    LET m == receive_api_response_maybe(r)
    IN  IF ~m.ok THEN m
        ELSE [ok |-> TRUE, data |-> m.data, error |-> ""]

\* async fn receive_api_response
receive_api_response(r) ==
    LET m == receive_api_response_maybe(r)
    IN  IF ~m.ok THEN m
        ELSE IF m.data THEN m
        ELSE [ok |-> FALSE, data |-> FALSE,
              error |-> "request failed: no data"]

\* `let res = client.request(..).send().await?; receive_api_response(res).await`
api_call(r) ==
    IF r = "send_error"
    THEN [ok |-> FALSE, data |-> FALSE, error |-> "send failed"]
    ELSE receive_api_response(r)

\* A call that used receive_api_response where absence is to be tolerated.
receive_api_response_empty_strict(r) == receive_api_response(r)

\* async fn receive_api_response_empty
receive_api_response_empty(r) ==
    LET m == receive_api_response_maybe(r)
    IN  IF ~m.ok THEN m
        ELSE [ok |-> TRUE, data |-> FALSE, error |-> ""]

\* `let res = client.request(..).send().await?; receive_api_response_empty(res).await`
api_call_empty(r) ==
    IF r = "send_error"
    THEN [ok |-> FALSE, data |-> FALSE, error |-> "send failed"]
    ELSE receive_api_response_empty(r)

\* What the platform can answer over HTTP: the status line, whether the
\* body decodes as an ApiResponse, and the envelope's code and data.
HttpStatuses == {200, 404}
EnvelopeCodes == {"Success", "NotFound"}
SendFailure == [sent |-> FALSE, status |-> 0, decodes |-> FALSE,
                code |-> "", data |-> FALSE]
HttpResponses ==
    {SendFailure}
        \cup [sent : {TRUE}, status : HttpStatuses, decodes : {FALSE},
              code : {""}, data : {FALSE}]
        \cup [sent : {TRUE}, status : HttpStatuses, decodes : {TRUE},
              code : EnvelopeCodes, data : BOOLEAN]

\* The answers to a delete: the platform sends no data with them.
DeleteResponses == { h \in HttpResponses : ~h.data }

\* `response.json::<ApiResponse<R>>().await`: the status line and the
\* envelope's code play no part in it.
json(h) ==
    IF ~h.decodes THEN "decode_error"
    ELSE IF h.data THEN "data" ELSE "no_data"

\* `.send().await` and the decoding of what came back
exchange(h) == IF ~h.sent THEN "send_error" ELSE json(h)

\* The platform reports a failure: a non-2xx status or an error code.
RemoteFailure(h) == h.sent /\ (h.status # 200 \/ (h.decodes /\ h.code # "Success"))

\* The platform answers that the resource does not exist.
NotFound(h) == h.sent /\ h.decodes /\ h.status = 404 /\ h.code = "NotFound"

\* The platform answers that it has done what was asked.
Success(h) == h.sent /\ h.decodes /\ h.status = 200 /\ h.code = "Success"

\* One request of the log: the operation, the id it is bound to or
\* addressed to, and whether the call returned Ok.
Request(op, arg, ok) == [op |-> op, arg |-> arg, ok |-> ok]

(***************************************************************************)
(* The records of the platform.                                            *)
(***************************************************************************)
GroupIds == {"g1", "g2"}
DestinationIds == {"d1"}
ConnectorIds == {"c1"}

\* ConnectorStatusResponse.setup_state
SetupStates == {"incomplete", "connected", "broken"}

Timestamps == {None, Some("t")}

\* succeeded_at / failed_at of a ConnectorResponseV1
SyncStatuses == [succeeded_at : Timestamps, failed_at : Timestamps]

\* struct ConnectorResponseV1, the fields setup_sync reads
ConnectorResponseV1(id, setup_state, sync) ==
    [id |-> id,
     status |-> [setup_state |-> setup_state],
     succeeded_at |-> sync.succeeded_at,
     failed_at |-> sync.failed_at]

NotSynced == [succeeded_at |-> None, failed_at |-> None]

NoConnector == ConnectorResponseV1("", "", NotSynced)

SeqsUpTo(S, n) == UNION { [1..k -> S] : k \in 1..n }

\* The setup statuses the platform reports to the successive
\* get_connector calls of the first wait loop; the last one stays.
SetupMocks == SeqsUpTo(SetupStates, MaxStatuses)

\* The same for the sync statuses reported to the second wait loop.
SyncMocks == SeqsUpTo(SyncStatuses, MaxSyncStatuses)

Min(a, b) == IF a <= b THEN a ELSE b

\* The status a mock reports to the fetch that follows `pos` fetches.
Reported(mock, pos) == mock[Min(pos + 1, Len(mock))]

\* `paused` and `is_historical_sync` are the settings of the connector as
\* the platform holds them: None while it holds no such setting.
NoPlatform ==
    [created |-> "", setup_mock |-> << >>, setup_pos |-> 0,
     sync_mock |-> << >>, sync_pos |-> 0,
     paused |-> None, is_historical_sync |-> None]

\* The tree of the test database: public.Person with a computed username.
PersonTree ==
    [schemas |-> [s \in {"public"} |->
        [enabled |-> FALSE,
         tables |-> [t \in {"Person"} |->
            [enabled |-> FALSE,
             columns |-> [c \in {"username", "id"} |->
                [enabled |-> TRUE,
                 hashed |-> (c = "id"),
                 is_primary_key |-> IF c = "id" THEN Some(TRUE) ELSE None]]]]]]]

\* The trees schema reload returns in a whole run.
RunTrees == { [schemas |-> EmptySchemas], PersonTree }

\* struct CreatedObjects inside the anyhow::Result setup_sync returns
NoResult == [tag |-> "none", group |-> "", destination |-> "", error |-> ""]
OkResult(g, d) == [tag |-> "Ok", group |-> g, destination |-> d, error |-> ""]
ErrResult(e) == [tag |-> "Err", group |-> "", destination |-> "", error |-> e]

(***************************************************************************)
(* The age test of the retention sweeper.                                  *)
(***************************************************************************)
\* A created_at string: well-formed for "%+" and naming an instant (in
\* seconds), or not well-formed.
CreatedAtStrings ==
    {[wellformed |-> FALSE, secs |-> 0]}
        \cup {[wellformed |-> TRUE, secs |-> 30 * k] : k \in 0..4}

NoCreatedAt == [wellformed |-> FALSE, secs |-> 0]

\* chrono::DateTime::parse_from_str(created_at, "%+")
parse_from_str(s) == IF s.wellformed THEN Some(s.secs) ELSE None

\* chrono::Duration::num_minutes: whole minutes, truncated toward zero
num_minutes(seconds) ==
    IF seconds >= 0 THEN seconds \div 60 ELSE -((-seconds) \div 60)

\* is_old with the boundary included
is_old_inclusive(s) ==
    LET parsed == parse_from_str(s)
    IN  IF parsed = None THEN TRUE
        ELSE num_minutes(now - parsed[2]) >= 15

\* A created_at that does not parse taken for a fresh one.
is_old_unparsed_young(s) ==
    LET parsed == parse_from_str(s)
    IN  IF parsed = None THEN FALSE
        ELSE num_minutes(now - parsed[2]) > 15

\* fn is_old
is_old(s) ==
    LET parsed == parse_from_str(s)
    IN  IF parsed = None THEN TRUE
        ELSE LET since_created == now - parsed[2]
             IN  num_minutes(since_created) > 15

(***************************************************************************)
(* setup_sync                                                              *)
(***************************************************************************)
\* the first loop waiting only while the setup is "incomplete"
setup_pending_incomplete_only(c) == c.status.setup_state = "incomplete"

\* line 23: while connector.status.setup_state != "connected"
setup_pending(c) == c.status.setup_state # "connected"

\* the second loop waiting for succeeded_at alone
sync_pending_success_only(c) == c.succeeded_at = None

\* line 46: while connector.failed_at.is_none() && connector.succeeded_at.is_none()
sync_pending(c) == c.failed_at = None /\ c.succeeded_at = None

\* lines 56-60: the line logged once the sync wait is over
report_line(c) == IF c.failed_at # None THEN "failed" ELSE "succeeded"

\* setup_sync returning an error for a failed sync
setup_sync_return_err(c, g, d) ==
    IF c.failed_at # None THEN ErrResult("sync failed") ELSE OkResult(g, d)

\* line 61: Ok(CreatedObjects { group, destination })
setup_sync_return(c, g, d) == OkResult(g, d)

\* line 18: the group_id create_destination is given (&group.id)
destination_group_id == group

\* create_connector given the id of the destination
connector_group_id_wrong == destination

\* line 21: the group_id create_connector is given (&group.id)
connector_group_id == group

\* the schema reload not waiting for the first loop
setup_wait_skipped == TRUE

\* lines 23-31: the first wait loop is over
setup_wait_over == ~setup_pending(connector)

\* lines 46-54: the second wait loop is over
sync_wait_over == ~sync_pending(connector)

\* A retry: the failed call's statement runs again.
propagate_retry(at) == at

\* The `?` after an awaited call that returned Err: the function returns
\* the error; `at` is the statement the call was made at.
propagate(at) == "done"

\* The ids of the resources of a kind the platform holds; the platform
\* gives a resource it creates an id it does not hold.
Held(kind) == { x.id : x \in remote[kind] }

\* The created_at of a resource the platform creates now.
CreatedNow == [wellformed |-> TRUE, secs |-> now]

\* What a create leaves on the platform.
after_create(kind, record) == [remote EXCEPT ![kind] = @ \cup {record}]

\* line 17: let group = create_group(&client).await?;
create_group ==
    /\ pc = "create_group"
    /\ \E r \in Responses, id \in GroupIds :
         LET res == api_call(r) IN
         /\ res.ok => id \notin Held("groups")
         /\ issued' = Append(issued, Request("create_group", "", res.ok))
         /\ IF res.ok
            THEN /\ group' = id
                 /\ remote' = after_create("groups",
                                  [id |-> id, created_at |-> CreatedNow])
                 /\ pc' = "create_destination"
                 /\ result' = result
            ELSE /\ group' = group
                 /\ remote' = remote
                 /\ pc' = propagate(pc)
                 /\ result' = ErrResult(res.error)
    /\ UNCHANGED << destination, connector, schema, request, platform, logged >>
    /\ UNCHANGED ageVars
    /\ UNCHANGED << response, listed, cursor, fetched, judged >>
    /\ UNCHANGED processVars

\* line 18: let destination = create_destination(&client, &group.id, ..).await?;
create_destination ==
    /\ pc = "create_destination"
    /\ \E r \in Responses, id \in DestinationIds :
         LET res == api_call(r) IN
         /\ res.ok => id \notin Held("destinations")
         /\ issued' = Append(issued, Request("create_destination",
                                         destination_group_id, res.ok))
         /\ IF res.ok
            THEN /\ destination' = id
                 /\ remote' = after_create("destinations",
                                  [id |-> id, group_id |-> destination_group_id])
                 /\ pc' = "create_connector"
                 /\ result' = result
            ELSE /\ destination' = destination
                 /\ remote' = remote
                 /\ pc' = propagate(pc)
                 /\ result' = ErrResult(res.error)
    /\ UNCHANGED << group, connector, schema, request, platform, logged >>
    /\ UNCHANGED ageVars
    /\ UNCHANGED << response, listed, cursor, fetched, judged >>
    /\ UNCHANGED processVars

\* line 21: let mut connector = create_connector(&client, &group.id, ..).await?;
\* The platform answers with the new record; what it is going to report to
\* the fetches that follow is its own business from here on.
\* a connector asked to be created running
NewConnectorRequestUnpaused == [paused |-> Some(FALSE)]

\* lines 552-567: struct PostgresNewConnectorRequestV1 as create_connector
\* fills it in, the field the platform's pause setting comes from
PostgresNewConnectorRequestV1 == [paused |-> Some(TRUE)]

\* Mocks is what the platform can go on to report.
CreateConnectorOn(Mocks) ==
    /\ pc = "create_connector"
    /\ \E r \in Responses, id \in ConnectorIds, st \in SetupStates,
          mock \in Mocks :
         LET res == api_call(r) IN
         /\ res.ok => id \notin Held("connectors")
         /\ issued' = Append(issued, Request("create_connector",
                                         connector_group_id, res.ok))
         /\ IF res.ok
            THEN /\ connector' = ConnectorResponseV1(id, st, NotSynced)
                 /\ platform' = [platform EXCEPT
                        !.created = st,
                        !.setup_mock = mock,
                        !.paused = PostgresNewConnectorRequestV1.paused]
                 /\ remote' = after_create("connectors",
                                  [id |-> id, group_id |-> connector_group_id,
                                   created_at |-> CreatedNow])
                 /\ pc' = "setup_wait"
                 /\ result' = result
            ELSE /\ connector' = connector
                 /\ platform' = platform
                 /\ remote' = remote
                 /\ pc' = propagate(pc)
                 /\ result' = ErrResult(res.error)
    /\ UNCHANGED << group, destination, schema, request, logged >>
    /\ UNCHANGED ageVars
    /\ UNCHANGED << response, listed, cursor, fetched, judged >>
    /\ UNCHANGED processVars

create_connector == CreateConnectorOn(SetupMocks)

\* lines 23-29: one iteration of the first wait loop
SetupWait ==
    /\ pc = "setup_wait"
    /\ setup_pending(connector)
    /\ platform.setup_pos < MaxFetches
    /\ \E r \in Responses :
         LET res == api_call(r) IN
         /\ issued' = Append(issued, Request("get_connector", connector.id, res.ok))
         /\ IF res.ok
            THEN /\ connector' =
                       ConnectorResponseV1(connector.id,
                           Reported(platform.setup_mock, platform.setup_pos),
                           NotSynced)
                 /\ platform' = [platform EXCEPT !.setup_pos = @ + 1]
                 /\ pc' = pc
                 /\ result' = result
            ELSE /\ connector' = connector
                 /\ platform' = platform
                 /\ pc' = propagate(pc)
                 /\ result' = ErrResult(res.error)
    /\ UNCHANGED << group, destination, schema, request, logged >>
    /\ UNCHANGED ageVars
    /\ UNCHANGED sweepVars
    /\ UNCHANGED processVars

\* line 31: let schema = reload_connector_schema_config(&client, &connector.id).await?;
\* reached when the condition of line 23 is false.  Trees is what discovery
\* can return.
ReloadFrom(Trees) ==
    /\ pc = "setup_wait"
    /\ setup_wait_over
    /\ \E tree \in Trees, r \in Responses :
         LET res == api_call(r) IN
         /\ issued' = Append(issued,
                Request("reload_connector_schema_config", connector.id, res.ok))
         /\ IF res.ok
            THEN /\ schema' = Some(tree)
                 /\ pc' = "update"
                 /\ result' = result
            ELSE /\ schema' = schema
                 /\ pc' = propagate(pc)
                 /\ result' = ErrResult(res.error)
    /\ UNCHANGED << group, destination, connector, request, platform, logged >>
    /\ UNCHANGED ageVars
    /\ UNCHANGED sweepVars
    /\ UNCHANGED processVars

reload_connector_schema_config == ReloadFrom(RunTrees)

\* lines 34-42: update_connector_schema_config(.., &UpdateConnectorSchemaRequest {..}).await?;
update_connector_schema_config ==
    /\ pc = "update"
    /\ request' = Some([schema_change_handling |-> "BLOCK_ALL",
                        schemas |-> pick_schema(schema[2])])
    /\ \E r \in Responses :
         LET res == api_call(r) IN
         /\ issued' = Append(issued,
                Request("update_connector_schema_config", connector.id, res.ok))
         /\ IF res.ok
            THEN /\ pc' = "start_sync"
                 /\ result' = result
            ELSE /\ pc' = propagate(pc)
                 /\ result' = ErrResult(res.error)
    /\ UNCHANGED << group, destination, connector, schema, platform, logged >>
    /\ UNCHANGED ageVars
    /\ UNCHANGED sweepVars
    /\ UNCHANGED processVars

\* lines 721-724: the body of the PATCH start_sync sends
UpdateConnectorRequest == [is_historical_sync |-> TRUE, paused |-> FALSE]

\* The connector's settings on the platform once it applied a PATCH.
patched(p, body) ==
    [p EXCEPT !.paused = Some(body.paused),
              !.is_historical_sync = Some(body.is_historical_sync)]

\* line 44: let mut connector = start_sync(&client, &connector.id).await?;
\* Mocks is what the platform can go on to report.  The platform has
\* applied the PATCH when it answers with the connector's record, has not
\* when the request was not sent, and may or may not have otherwise.
StartSyncOn(Mocks) ==
    /\ pc = "start_sync"
    /\ \E r \in Responses, st \in SyncStatuses, mock \in Mocks,
          applied \in BOOLEAN :
         LET res == api_call(r) IN
         /\ res.ok => applied
         /\ r = "send_error" => ~applied
         /\ issued' = Append(issued, Request("start_sync", connector.id, res.ok))
         /\ IF res.ok
            THEN /\ connector' = ConnectorResponseV1(connector.id, "connected", st)
                 /\ platform' = [patched(platform, UpdateConnectorRequest)
                                     EXCEPT !.sync_mock = mock]
                 /\ pc' = "sync_wait"
                 /\ result' = result
            ELSE /\ connector' = connector
                 /\ platform' = IF applied
                                 THEN patched(platform, UpdateConnectorRequest)
                                 ELSE platform
                 /\ pc' = propagate(pc)
                 /\ result' = ErrResult(res.error)
    /\ UNCHANGED << group, destination, schema, request, logged >>
    /\ UNCHANGED ageVars
    /\ UNCHANGED sweepVars
    /\ UNCHANGED processVars

start_sync == StartSyncOn(SyncMocks)

\* lines 46-52: one iteration of the second wait loop
SyncWait ==
    /\ pc = "sync_wait"
    /\ sync_pending(connector)
    /\ platform.sync_pos < MaxFetches
    /\ \E r \in Responses :
         LET res == api_call(r) IN
         /\ issued' = Append(issued, Request("get_connector", connector.id, res.ok))
         /\ IF res.ok
            THEN /\ connector' =
                       ConnectorResponseV1(connector.id, "connected",
                           Reported(platform.sync_mock, platform.sync_pos))
                 /\ platform' = [platform EXCEPT !.sync_pos = @ + 1]
                 /\ pc' = pc
                 /\ result' = result
            ELSE /\ connector' = connector
                 /\ platform' = platform
                 /\ pc' = propagate(pc)
                 /\ result' = ErrResult(res.error)
    /\ UNCHANGED << group, destination, schema, request, logged >>
    /\ UNCHANGED ageVars
    /\ UNCHANGED sweepVars
    /\ UNCHANGED processVars

\* lines 54-61: the loop of line 46 is over: log the outcome, return
Report ==
    /\ pc = "sync_wait"
    /\ sync_wait_over
    /\ logged' = report_line(connector)
    /\ result' = setup_sync_return(connector, group, destination)
    /\ pc' = "done"
    /\ UNCHANGED << group, destination, connector, schema, request, issued,
                    platform >>
    /\ UNCHANGED ageVars
    /\ UNCHANGED sweepVars
    /\ UNCHANGED processVars

\* No teardown is running.
NoResponse == [sent |-> FALSE, status |-> -1, decodes |-> FALSE,
               code |-> "", data |-> FALSE]
NoRemote == [connectors |-> {}, destinations |-> {}, groups |-> {}]
NoGroup == [id |-> "", created_at |-> NoCreatedAt]

SweepIdle ==
    /\ remote = NoRemote
    /\ response = NoResponse
    /\ listed = << >>
    /\ cursor = 0
    /\ fetched = NoGroup
    /\ judged = << >>

\* No process other than the one running, and main not modelled: the
\* function under study was called with a client of its own.
NoProcess == [proc |-> "", pc |-> "", result |-> NoResult]

ProcessIdle ==
    /\ main = ""
    /\ returned = << >>
    /\ clients = 1
    /\ parked = NoProcess

AgeIdle ==
    /\ now = 0
    /\ created_at = NoCreatedAt
    /\ classified = "none"

Init ==
    /\ pc = "create_group"
    /\ group = ""
    /\ destination = ""
    /\ connector = NoConnector
    /\ schema = None
    /\ request = None
    /\ issued = << >>
    /\ platform = NoPlatform
    /\ logged = "none"
    /\ result = NoResult
    /\ AgeIdle
    /\ SweepIdle
    /\ ProcessIdle

Next ==
    \/ create_group
    \/ create_destination
    \/ create_connector
    \/ SetupWait
    \/ reload_connector_schema_config
    \/ update_connector_schema_config
    \/ start_sync
    \/ SyncWait
    \/ Report

Spec == Init /\ [][Next]_vars

\* The platform goes through one change: it reports one status to some
\* fetches, then another, which stays.
Settling(S, n) ==
    { [i \in 1..k |-> IF i < k THEN p ELSE q] : p \in S, q \in S, k \in 1..n }

create_connector_settling == CreateConnectorOn(Settling(SetupStates, MaxStatuses))
start_sync_settling == StartSyncOn(Settling(SyncStatuses, MaxSyncStatuses))

NextFair ==
    \/ create_group
    \/ create_destination
    \/ create_connector_settling
    \/ SetupWait
    \/ reload_connector_schema_config
    \/ update_connector_schema_config
    \/ start_sync_settling
    \/ SyncWait
    \/ Report

\* The run under fair scheduling: setup_sync is the one future main awaits on
\* a current_thread runtime (main.rs line 8), and the sleeps of its wait
\* loops (lines 25 and 48) are finite, so a statement that can run does.
SpecFair == Init /\ [][NextFair]_vars /\ WF_vars(NextFair)

(***************************************************************************)
(* The schema step of a run, lines 31-42, over every tree discovery can    *)
(* return within the bounds.  It starts where the first wait loop has      *)
(* seen the connector connected.                                           *)
(***************************************************************************)
InitFilter ==
    /\ pc = "setup_wait"
    /\ group = "g1"
    /\ destination = "d1"
    /\ connector = ConnectorResponseV1("c1", "connected", NotSynced)
    /\ schema = None
    /\ request = None
    /\ issued = << Request("create_group", "", TRUE),
                   Request("create_destination", "g1", TRUE),
                   Request("create_connector", "g1", TRUE) >>
    /\ platform = [NoPlatform EXCEPT !.created = "connected",
                                     !.setup_mock = << "connected" >>,
                                     !.paused = Some(TRUE)]
    /\ logged = "none"
    /\ result = NoResult
    /\ AgeIdle
    /\ SweepIdle
    /\ ProcessIdle

reload_discovered == ReloadFrom(StandardConfigResponse(MaxSchemas))

NextFilter ==
    \/ reload_discovered
    \/ update_connector_schema_config

SpecFilter == InitFilter /\ [][NextFilter]_vars

(***************************************************************************)
(* is_old on its own: a created_at string, and a clock that advances.      *)
(***************************************************************************)
InitAge ==
    /\ pc = "idle"
    /\ group = ""
    /\ destination = ""
    /\ connector = NoConnector
    /\ schema = None
    /\ request = None
    /\ issued = << >>
    /\ platform = NoPlatform
    /\ logged = "none"
    /\ result = NoResult
    /\ now = 0
    /\ created_at \in CreatedAtStrings
    /\ classified = "none"
    /\ SweepIdle
    /\ ProcessIdle

\* time passes (half a minute)
Tick ==
    /\ now < MaxAgeMinutes * 60
    /\ now' = now + 30
    /\ classified' = "none"
    /\ UNCHANGED created_at
    /\ UNCHANGED runVars
    /\ UNCHANGED sweepVars
    /\ UNCHANGED processVars

\* a call of is_old(created_at) at the current time
IsOld ==
    /\ classified = "none"
    /\ classified' = IF is_old(created_at) THEN "old" ELSE "not old"
    /\ UNCHANGED << now, created_at >>
    /\ UNCHANGED runVars
    /\ UNCHANGED sweepVars
    /\ UNCHANGED processVars

NextAge == Tick \/ IsOld

SpecAge == InitAge /\ [][NextAge]_vars

(***************************************************************************)
(* Teardown: cleanup (lines 116-129) and cleanup_old (lines 131-154), run  *)
(* against a platform that holds connectors, destinations and groups.      *)
(***************************************************************************)
\* The created_at strings of the platform's resources: one that does not
\* parse, one of a resource made at second 0 and one made at second 120.
Stamps == { c \in CreatedAtStrings : ~c.wellformed \/ c.secs \in {0, 120} }

TeardownConnectorIds == {"c1", "c2"}
TeardownDestinationIds == {"d1", "d2"}

\* struct ConnectorResponse, struct DestinationResponse, struct GroupResponse
ConnectorResponse ==
    [id : TeardownConnectorIds, group_id : GroupIds, created_at : Stamps]
DestinationResponse == [id : TeardownDestinationIds, group_id : GroupIds]
GroupResponse == [id : GroupIds, created_at : Stamps]

\* The sets of records of R with no id twice.
Keyed(R) == { S \in SUBSET R : \A a, b \in S : a.id = b.id => a = b }

\* What the platform can hold when a teardown starts: at most n resources.
Remotes(n) ==
    { r \in [connectors : Keyed(ConnectorResponse),
             destinations : Keyed(DestinationResponse),
             groups : Keyed(GroupResponse)] :
        Cardinality(r.connectors) + Cardinality(r.destinations)
            + Cardinality(r.groups) <= n }

\* `items: Vec<_>` of a list response: the records of S in some order
ListingsOf(S) ==
    { l \in [1..Cardinality(S) -> S] : \A i, j \in 1..Cardinality(S) :
                                           l[i] = l[j] => i = j }

\* The time one awaited call can take, in seconds.
Elapsed == {0, 60}

\* Result<()> of a teardown that ran to its end
OkUnit == [tag |-> "Ok", group |-> "", destination |-> "", error |-> ""]

\* What a delete leaves on the platform: the resource is gone when the
\* platform says it deleted it or says it is not there; nothing changes
\* when the request fails or the platform refuses.
after_delete(kind, id, h) ==
    IF Success(h) \/ NotFound(h)
    THEN [remote EXCEPT ![kind] = { x \in @ : x.id # id }]
    ELSE remote

\* One awaited call: the request goes out and its response comes in.
Called(op, arg, h, res, d) ==
    /\ now + d <= MaxAgeMinutes * 60
    /\ now' = now + d
    /\ response' = h
    /\ issued' = Append(issued, Request(op, arg, res.ok))

teardownFrame == << connector, schema, request, platform, logged,
                    created_at, classified >>

\* The loop leaves before it is through the list.
loop_over_early == TRUE

\* `for x in items`: the loop is through the list
loop_over == cursor = Len(listed)

\* a listing that is not scoped to a group
of_any_group(c, group_id) == TRUE

\* lines 772-775: GET /v1/groups/{group_id}/connections lists the
\* connectors of that group
of_group(c, group_id) == c.group_id = group_id

\* line 121: let connectors = list_connectors_of_group(&client, &objects.group.id).await?;
CleanupList ==
    /\ pc = "cleanup_list"
    /\ \E h \in HttpResponses, d \in Elapsed,
          items \in ListingsOf({ c \in remote.connectors : of_group(c, group) }) :
         LET res == api_call(exchange(h)) IN
         /\ Called("list_connectors_of_group", group, h, res, d)
         /\ IF res.ok
            THEN /\ listed' = items
                 /\ pc' = "cleanup_connectors"
                 /\ result' = result
            ELSE /\ listed' = listed
                 /\ pc' = propagate(pc)
                 /\ result' = ErrResult(res.error)
    /\ UNCHANGED << group, destination, remote, cursor, fetched, judged >>
    /\ UNCHANGED teardownFrame
    /\ UNCHANGED processVars

\* lines 122-124: one iteration of the loop over connectors.items
CleanupConnector ==
    /\ pc = "cleanup_connectors"
    /\ cursor < Len(listed)
    /\ \E h \in DeleteResponses, d \in Elapsed :
         LET res == api_call_empty(exchange(h))
             id == listed[cursor + 1].id
         IN
         /\ Called("delete_connector", id, h, res, d)
         /\ remote' = after_delete("connectors", id, h)
         /\ IF res.ok
            THEN /\ cursor' = cursor + 1
                 /\ pc' = pc
                 /\ result' = result
            ELSE /\ cursor' = cursor
                 /\ pc' = propagate(pc)
                 /\ result' = ErrResult(res.error)
    /\ UNCHANGED << group, destination, listed, fetched, judged >>
    /\ UNCHANGED teardownFrame
    /\ UNCHANGED processVars

\* line 125: delete_destination(&client, &objects.destination.id).await?;
\* reached when the loop of line 122 is through the list.
CleanupDestination ==
    /\ pc = "cleanup_connectors"
    /\ loop_over
    /\ \E h \in DeleteResponses, d \in Elapsed :
         LET res == api_call_empty(exchange(h)) IN
         /\ Called("delete_destination", destination, h, res, d)
         /\ remote' = after_delete("destinations", destination, h)
         /\ IF res.ok
            THEN /\ pc' = "cleanup_group"
                 /\ result' = result
            ELSE /\ pc' = propagate(pc)
                 /\ result' = ErrResult(res.error)
    /\ UNCHANGED << group, destination, listed, cursor, fetched, judged >>
    /\ UNCHANGED teardownFrame
    /\ UNCHANGED processVars

\* lines 126-128: delete_group(&client, &objects.group.id).await?; Ok(())
CleanupGroup ==
    /\ pc = "cleanup_group"
    /\ \E h \in DeleteResponses, d \in Elapsed :
         LET res == api_call_empty(exchange(h)) IN
         /\ Called("delete_group", group, h, res, d)
         /\ remote' = after_delete("groups", group, h)
         /\ IF res.ok
            THEN /\ pc' = "done"
                 /\ result' = OkUnit
            ELSE /\ pc' = propagate(pc)
                 /\ result' = ErrResult(res.error)
    /\ UNCHANGED << group, destination, listed, cursor, fetched, judged >>
    /\ UNCHANGED teardownFrame
    /\ UNCHANGED processVars

\* One answer of is_old in a sweep: for which record, when, and the answer
Judged(kind, r, old) ==
    [kind |-> kind, id |-> r.id, created_at |-> r.created_at, at |-> now,
     old |-> old]

\* line 135: let connectors = list_connectors(&client).await?;
SweepListConnectors ==
    /\ pc = "sweep_list_connectors"
    /\ \E h \in HttpResponses, d \in Elapsed,
          items \in ListingsOf(remote.connectors) :
         LET res == api_call(exchange(h)) IN
         /\ Called("list_connectors", "", h, res, d)
         /\ IF res.ok
            THEN /\ listed' = items
                 /\ pc' = "sweep_connectors"
                 /\ result' = result
            ELSE /\ listed' = listed
                 /\ pc' = propagate(pc)
                 /\ result' = ErrResult(res.error)
    /\ UNCHANGED << group, destination, remote, cursor, fetched, judged >>
    /\ UNCHANGED teardownFrame
    /\ UNCHANGED processVars

\* lines 136-140: one iteration of the loop over connectors.items
SweepConnector ==
    /\ pc = "sweep_connectors"
    /\ cursor < Len(listed)
    /\ LET c == listed[cursor + 1]
           old == is_old(c.created_at)
       IN
       /\ judged' = Append(judged, Judged("connector", c, old))
       /\ IF old
          THEN \E h \in DeleteResponses, d \in Elapsed :
                 LET res == api_call_empty(exchange(h)) IN
                 /\ Called("delete_connector", c.id, h, res, d)
                 /\ remote' = after_delete("connectors", c.id, h)
                 /\ IF res.ok
                    THEN /\ cursor' = cursor + 1
                         /\ pc' = pc
                         /\ result' = result
                    ELSE /\ cursor' = cursor
                         /\ pc' = propagate(pc)
                         /\ result' = ErrResult(res.error)
          ELSE /\ cursor' = cursor + 1
               /\ UNCHANGED << pc, result, remote, now, response, issued >>
    /\ UNCHANGED << group, destination, listed, fetched >>
    /\ UNCHANGED teardownFrame
    /\ UNCHANGED processVars

\* line 143: let destinations = list_destinations(&client).await?;
\* reached when the loop of line 136 is through the list.
SweepListDestinations ==
    /\ pc = "sweep_connectors"
    /\ loop_over
    /\ \E h \in HttpResponses, d \in Elapsed,
          items \in ListingsOf(remote.destinations) :
         LET res == api_call(exchange(h)) IN
         /\ Called("list_destinations", "", h, res, d)
         /\ IF res.ok
            THEN /\ listed' = items
                 /\ cursor' = 0
                 /\ pc' = "sweep_destinations"
                 /\ result' = result
            ELSE /\ listed' = listed
                 /\ cursor' = cursor
                 /\ pc' = propagate(pc)
                 /\ result' = ErrResult(res.error)
    /\ UNCHANGED << group, destination, remote, fetched, judged >>
    /\ UNCHANGED teardownFrame
    /\ UNCHANGED processVars

\* line 145: let group = get_group(&client, &destination.group_id).await?;
\* The platform sends the group's record only if it holds the group.
SweepGetGroup ==
    /\ pc = "sweep_destinations"
    /\ cursor < Len(listed)
    /\ LET group_id == listed[cursor + 1].group_id
           held == { g \in remote.groups : g.id = group_id }
       IN
       \E h \in HttpResponses, d \in Elapsed, g \in held \cup {NoGroup} :
         LET res == api_call(exchange(h)) IN
         /\ h.data <=> g \in held
         /\ Called("get_group", group_id, h, res, d)
         /\ IF res.ok
            THEN /\ fetched' = g
                 /\ pc' = "sweep_is_old"
                 /\ result' = result
            ELSE /\ fetched' = fetched
                 /\ pc' = propagate(pc)
                 /\ result' = ErrResult(res.error)
    /\ UNCHANGED << group, destination, remote, listed, cursor, judged >>
    /\ UNCHANGED teardownFrame
    /\ UNCHANGED processVars

\* The body of the `if` starting with the group delete.
if_old_body_group_first == "sweep_delete_group"

\* lines 147-148: the first statement of the body of `if is_old(..)`
if_old_body == "sweep_delete_destination"

\* line 147: if is_old(&group.created_at) { .. }, and the next iteration
\* when it is not
SweepIsOld ==
    /\ pc = "sweep_is_old"
    /\ LET old == is_old(fetched.created_at) IN
       /\ judged' = Append(judged, Judged("group", fetched, old))
       /\ IF old
          THEN /\ pc' = if_old_body
               /\ cursor' = cursor
          ELSE /\ pc' = "sweep_destinations"
               /\ cursor' = cursor + 1
    /\ UNCHANGED << group, destination, remote, listed, fetched, result,
                    now, response, issued >>
    /\ UNCHANGED teardownFrame
    /\ UNCHANGED processVars

\* line 148: delete_destination(&client, &destination.id).await?;
SweepDeleteDestination ==
    /\ pc = "sweep_delete_destination"
    /\ \E h \in DeleteResponses, d \in Elapsed :
         LET res == api_call_empty(exchange(h))
             id == listed[cursor + 1].id
         IN
         /\ Called("delete_destination", id, h, res, d)
         /\ remote' = after_delete("destinations", id, h)
         /\ IF res.ok
            THEN /\ pc' = "sweep_delete_group"
                 /\ result' = result
            ELSE /\ pc' = propagate(pc)
                 /\ result' = ErrResult(res.error)
    /\ UNCHANGED << group, destination, listed, cursor, fetched, judged >>
    /\ UNCHANGED teardownFrame
    /\ UNCHANGED processVars

\* line 149: delete_group(&client, &destination.group_id).await?;
SweepDeleteGroup ==
    /\ pc = "sweep_delete_group"
    /\ \E h \in DeleteResponses, d \in Elapsed :
         LET res == api_call_empty(exchange(h))
             id == listed[cursor + 1].group_id
         IN
         /\ Called("delete_group", id, h, res, d)
         /\ remote' = after_delete("groups", id, h)
         /\ IF res.ok
            THEN /\ cursor' = cursor + 1
                 /\ pc' = "sweep_destinations"
                 /\ result' = result
            ELSE /\ cursor' = cursor
                 /\ pc' = propagate(pc)
                 /\ result' = ErrResult(res.error)
    /\ UNCHANGED << group, destination, listed, fetched, judged >>
    /\ UNCHANGED teardownFrame
    /\ UNCHANGED processVars

\* line 153: Ok(()), reached when the loop of line 144 is through the list
SweepDone ==
    /\ pc = "sweep_destinations"
    /\ loop_over
    /\ pc' = "done"
    /\ result' = OkUnit
    /\ UNCHANGED << group, destination, remote, listed, cursor, fetched,
                    judged, now, response, issued >>
    /\ UNCHANGED teardownFrame
    /\ UNCHANGED processVars

\* A teardown starts: the cleanup of the run that made g1 and d1, or a
\* sweep.  The clock is such that a resource made at second 0 is 16 minutes
\* old and one made at second 120 is 14 minutes old.
InitTeardown ==
    /\ pc \in {"cleanup_list", "sweep_list_connectors"}
    /\ group = IF pc = "cleanup_list" THEN "g1" ELSE ""
    /\ destination = IF pc = "cleanup_list" THEN "d1" ELSE ""
    /\ connector = NoConnector
    /\ schema = None
    /\ request = None
    /\ issued = << >>
    /\ platform = NoPlatform
    /\ logged = "none"
    /\ result = NoResult
    /\ now = (MaxAgeMinutes - 1) * 60
    /\ created_at = NoCreatedAt
    /\ classified = "none"
    /\ remote \in Remotes(MaxResources)
    /\ response = NoResponse
    /\ listed = << >>
    /\ cursor = 0
    /\ fetched = NoGroup
    /\ judged = << >>
    /\ ProcessIdle

cleanup ==
    \/ CleanupList
    \/ CleanupConnector
    \/ CleanupDestination
    \/ CleanupGroup

cleanup_old ==
    \/ SweepListConnectors
    \/ SweepConnector
    \/ SweepListDestinations
    \/ SweepGetGroup
    \/ SweepIsOld
    \/ SweepDeleteDestination
    \/ SweepDeleteGroup
    \/ SweepDone

NextTeardown == cleanup \/ cleanup_old

SpecTeardown == InitTeardown /\ [][NextTeardown]_vars

(***************************************************************************)
(* main (src/src/main.rs, lines 9-61): the retention sweeper, the local    *)
(* servers and their tunnels, the run, its teardown and the validation of  *)
(* the synced data, each awaited in turn.                                  *)
(***************************************************************************)
\* One awaited call of main and what it returned.
Returned(call, tag) == [call |-> call, tag |-> tag]

\* main going on whatever the call returned
main_try_ignored(res, next) == next

\* The `?` of main after an awaited call: on Ok main goes on to its next
\* call, on Err it returns the error.
main_try(res, next) == IF res.tag = "Ok" THEN next ELSE "exit"

\* the client handed to the function by its caller
client_shared(call) == FALSE

\* lines 15, 119 and 132 of fivetran.rs: `let client = Client::new();` is
\* the first statement of setup_sync, of cleanup and of cleanup_old
client_new(call) == call \in {"cleanup_old", "setup_sync", "cleanup"}

\* The first statement of a function main calls.
Entry(call) ==
    CASE call = "setup_sync" -> "create_group"
      [] call = "cleanup" -> "cleanup_list"
      [] OTHER -> "idle"

\* A function returns to main: its locals are dropped, and main either
\* calls `next`, which constructs its client first, or stops.  What the
\* platform was going to report to the fetches of a run is of no
\* consequence once the run returned.
ReturnTo(call, next) ==
    /\ main = call
    /\ pc = "done"
    /\ returned' = Append(returned, Returned(call, result.tag))
    /\ main' = main_try(result, next)
    /\ pc' = Entry(main')
    /\ clients' = IF client_new(main') THEN clients + 1 ELSE clients
    /\ result' = NoResult
    /\ connector' = NoConnector
    /\ schema' = None
    /\ request' = None
    /\ platform' = NoPlatform
    /\ response' = NoResponse
    /\ listed' = << >>
    /\ cursor' = 0
    /\ fetched' = NoGroup
    /\ UNCHANGED << group, destination, issued, logged, remote, judged,
                    parked >>
    /\ UNCHANGED ageVars

\* line 13: fivetran::cleanup_old().await?;
CleanupOldReturned == ReturnTo("cleanup_old", "init_bore")

\* lines 15-44: the two servers are started and their tunnels opened;
\* init_bore(..).await? and get_bore_pub_addr(..)? can fail.  Then line 48
\* calls setup_sync, which constructs its client (line 15 of fivetran.rs).
StartServers ==
    /\ main = "init_bore"
    /\ \E tag \in {"Ok", "Err"} :
         /\ returned' = Append(returned, Returned("init_bore", tag))
         /\ main' = main_try([tag |-> tag], "setup_sync")
         /\ pc' = Entry(main')
         /\ clients' = IF client_new(main') THEN clients + 1 ELSE clients
    /\ UNCHANGED << group, destination, connector, schema, request, issued,
                    platform, logged, result, parked >>
    /\ UNCHANGED ageVars
    /\ UNCHANGED sweepVars

\* A platform that reports one status to every fetch of a wait loop.
Steady(S) == SeqsUpTo(S, 1)

create_connector_steady == CreateConnectorOn(Steady(SetupStates))
start_sync_steady == StartSyncOn(Steady(SyncStatuses))

\* fn setup_sync, lines 11-62 of fivetran.rs, against a steady platform
setup_sync ==
    \/ create_group
    \/ create_destination
    \/ create_connector_steady
    \/ SetupWait
    \/ reload_connector_schema_config
    \/ update_connector_schema_config
    \/ start_sync_steady
    \/ SyncWait
    \/ Report

\* What earlier runs have left on the platform: of the run of group g2, any
\* of its connector c2, its destination d2 and its group g2, made at `s`;
\* of the run of group g3, its destination d3 alone.
LeftBy(s) ==
    [connectors : SUBSET {[id |-> "c2", group_id |-> "g2", created_at |-> s]},
     destinations : SUBSET {[id |-> "d2", group_id |-> "g2"],
                            [id |-> "d3", group_id |-> "g3"]},
     groups : SUBSET {[id |-> "g2", created_at |-> s]}]

Leftovers == UNION { LeftBy(s) : s \in Stamps }

\* line 48: let objects = fivetran::setup_sync(..).await?;
\* and line 50 calling cleanup(&objects), which constructs its client
SetupSyncReturned == ReturnTo("setup_sync", "cleanup")

\* line 50: fivetran::cleanup(&objects).await?;
CleanupReturned == ReturnTo("cleanup", "validate_data")

\* line 54: postgres::validate_data(postgres.tcp_address).await?;
\* then lines 55-60: main returns what it returned, or Ok(())
validate_data ==
    /\ main = "validate_data"
    /\ \E tag \in {"Ok", "Err"} :
         returned' = Append(returned, Returned("validate_data", tag))
    /\ main' = "exit"
    /\ UNCHANGED << clients, parked >>
    /\ UNCHANGED runVars
    /\ UNCHANGED ageVars
    /\ UNCHANGED sweepVars

\* The process starts: main calls cleanup_old, whose client is constructed
\* (line 132), against a platform that holds what earlier runs left.
InitMain ==
    /\ main = "cleanup_old"
    /\ pc = "sweep_list_connectors"
    /\ group = ""
    /\ destination = ""
    /\ connector = NoConnector
    /\ schema = None
    /\ request = None
    /\ issued = << >>
    /\ platform = NoPlatform
    /\ logged = "none"
    /\ result = NoResult
    /\ now = (MaxAgeMinutes - 1) * 60
    /\ created_at = NoCreatedAt
    /\ classified = "none"
    /\ remote \in Leftovers
    /\ response = NoResponse
    /\ listed = << >>
    /\ cursor = 0
    /\ fetched = NoGroup
    /\ judged = << >>
    /\ returned = << >>
    /\ clients = 1
    /\ parked = NoProcess

NextMain ==
    \/ cleanup_old
    \/ CleanupOldReturned
    \/ StartServers
    \/ setup_sync
    \/ SetupSyncReturned
    \/ cleanup
    \/ CleanupReturned
    \/ validate_data

SpecMain == InitMain /\ [][NextMain]_vars

(***************************************************************************)
(* Two processes on one account: a run that sits in one of its wait loops  *)
(* in one process, and the retention sweeper in another.  They share the   *)
(* platform and the clock, and nothing else; `pc` and `result` are those   *)
(* of the process that is scheduled, `parked` holds those of the other.    *)
(***************************************************************************)
Process(proc, at, res) == [proc |-> proc, pc |-> at, result |-> res]

\* the process that is scheduled
Scheduled == IF parked.proc = "run" THEN "sweeper" ELSE "run"

\* The scheduler lets the other process run.
Switch ==
    /\ parked # NoProcess
    /\ pc' = parked.pc
    /\ result' = parked.result
    /\ parked' = Process(Scheduled, pc, result)
    /\ UNCHANGED << group, destination, connector, schema, request, issued,
                    platform, logged, main, returned, clients >>
    /\ UNCHANGED ageVars
    /\ UNCHANGED sweepVars

\* The created_at of the group and of the connector of the run: the
\* connector is made after the group, and the two are written alike.
RunStamps ==
    { st \in [group : Stamps, connector : Stamps] :
        /\ st.group.wellformed = st.connector.wellformed
        /\ st.group.secs <= st.connector.secs }

\* The run made g1, d1 and c1 and sits in its first wait loop, or has gone
\* on to trigger the sync and sits in its second; the platform keeps
\* reporting the state that keeps it there, and the run has polled all but
\* two of the fetches the model follows.  The sweeper of the other process
\* is about to send its first request.
InitConcurrent ==
    /\ pc \in {"setup_wait", "sync_wait"}
    /\ group = "g1"
    /\ destination = "d1"
    /\ connector = ConnectorResponseV1("c1",
                       IF pc = "setup_wait" THEN "incomplete" ELSE "connected",
                       NotSynced)
    /\ schema = IF pc = "setup_wait" THEN None ELSE Some(PersonTree)
    /\ request = IF pc = "setup_wait" THEN None
                 ELSE Some([schema_change_handling |-> "BLOCK_ALL",
                            schemas |-> pick_schema(PersonTree)])
    /\ issued = << Request("create_group", "", TRUE),
                   Request("create_destination", "g1", TRUE),
                   Request("create_connector", "g1", TRUE) >>
                 \o (IF pc = "setup_wait" THEN << >>
                     ELSE << Request("get_connector", "c1", TRUE),
                             Request("reload_connector_schema_config", "c1", TRUE),
                             Request("update_connector_schema_config", "c1", TRUE),
                             Request("start_sync", "c1", TRUE) >>)
                 \o [i \in 1..(MaxFetches - 2) |->
                        Request("get_connector", "c1", TRUE)]
    /\ platform =
           IF pc = "setup_wait"
           THEN [NoPlatform EXCEPT !.created = "incomplete",
                                   !.setup_mock = << "incomplete" >>,
                                   !.setup_pos = MaxFetches - 2,
                                   !.paused = PostgresNewConnectorRequestV1.paused]
           ELSE [patched(NoPlatform, UpdateConnectorRequest) EXCEPT
                    !.created = "incomplete",
                    !.setup_mock = << "connected" >>,
                    !.setup_pos = 1,
                    !.sync_mock = << NotSynced >>,
                    !.sync_pos = MaxFetches - 2]
    /\ logged = "none"
    /\ result = NoResult
    /\ now = (MaxAgeMinutes - 1) * 60
    /\ created_at = NoCreatedAt
    /\ classified = "none"
    /\ \E st \in RunStamps :
         remote =
           [connectors |-> {[id |-> "c1", group_id |-> "g1",
                             created_at |-> st.connector]},
            destinations |-> {[id |-> "d1", group_id |-> "g1"]},
            groups |-> {[id |-> "g1", created_at |-> st.group]}]
    /\ response = NoResponse
    /\ listed = << >>
    /\ cursor = 0
    /\ fetched = NoGroup
    /\ judged = << >>
    /\ main = ""
    /\ returned = << >>
    /\ clients = 1
    /\ parked = Process("sweeper", "sweep_list_connectors", NoResult)

NextConcurrent ==
    \/ SetupWait
    \/ SyncWait
    \/ cleanup_old
    \/ Switch

SpecConcurrent == InitConcurrent /\ [][NextConcurrent]_vars

(***************************************************************************)
(* The claims about the schema filter, under SpecFilter.                   *)
(***************************************************************************)
\* The keys of a tree: every schema, every table under its schema, every
\* column under its table.
KeysOf(schemas) ==
    { << s >> : s \in DOMAIN schemas }
        \cup UNION { { << s, t >> : t \in DOMAIN schemas[s].tables } :
                        s \in DOMAIN schemas }
        \cup UNION { UNION { { << s, t, c >> :
                                  c \in DOMAIN schemas[s].tables[t].columns } :
                                t \in DOMAIN schemas[s].tables } :
                        s \in DOMAIN schemas }

ColumnKeys(schemas) == { k \in KeysOf(schemas) : Len(k) = 3 }

DiscoveredColumn(k) == schema[2].schemas[k[1]].tables[k[2]].columns[k[3]]
SubmittedColumn(k) == request[2].schemas[k[1]].tables[k[2]].columns[k[3]]

\* C1: the tree the schema update submits has exactly the keys of the tree
\* the schema reload returned (every schema, table and column of it, and no
\* other), and it is the output of pick_schema for that tree.
C1_KeySetPreserved ==
    request # None =>
        /\ schema # None
        /\ KeysOf(request[2].schemas) = KeysOf(schema[2].schemas)
        /\ request[2].schemas = pick_schema(schema[2])

\* C1: a tree with two schemas, a disabled one with two tables and the
\* excluded column and an empty one, has been submitted with its keys.
C1_Witness ==
    /\ request # None
    /\ DOMAIN schema[2].schemas = {"public", "other"}
    /\ ~schema[2].schemas["public"].enabled
    /\ DOMAIN schema[2].schemas["public"].tables = {"Person", "Movie"}
    /\ DOMAIN schema[2].schemas["public"].tables["Person"].columns
           = {"username"}
    /\ DOMAIN schema[2].schemas["other"].tables = {}
    /\ KeysOf(request[2].schemas) = KeysOf(schema[2].schemas)

\* C2: every column of the discovered tree whose (schema, table, column)
\* triple is in SKIP_COLUMNS is submitted with enabled = false, whatever its
\* discovered enabled flag was.
C2_ExcludedDisabled ==
    request # None =>
        \A k \in ColumnKeys(schema[2].schemas) :
            k \in SKIP_COLUMNS => SubmittedColumn(k).enabled = FALSE

\* C2: public.Person.username was discovered as enabled and submitted.
C2_Witness ==
    /\ request # None
    /\ << "public", "Person", "username" >> \in ColumnKeys(schema[2].schemas)
    /\ DiscoveredColumn(<< "public", "Person", "username" >>).enabled
    /\ ~SubmittedColumn(<< "public", "Person", "username" >>).enabled

\* C3: a column that is not excluded is submitted with its discovered
\* enabled flag and its discovered is_primary_key; every column, excluded or
\* not, is submitted with hashed = false.
C3_OthersPassThrough ==
    request # None =>
        \A k \in ColumnKeys(schema[2].schemas) :
            /\ k \notin SKIP_COLUMNS =>
                   /\ SubmittedColumn(k).enabled = DiscoveredColumn(k).enabled
                   /\ SubmittedColumn(k).is_primary_key
                          = DiscoveredColumn(k).is_primary_key
            /\ SubmittedColumn(k).hashed = Some(FALSE)

\* C3: an enabled, hashed primary-key column that has the excluded
\* column's name in another table has been submitted enabled, not hashed
\* and as a primary key.
C3_Witness ==
    /\ request # None
    /\ << "public", "Movie", "username" >> \in ColumnKeys(schema[2].schemas)
    /\ DiscoveredColumn(<< "public", "Movie", "username" >>).enabled
    /\ DiscoveredColumn(<< "public", "Movie", "username" >>).hashed
    /\ DiscoveredColumn(<< "public", "Movie", "username" >>).is_primary_key
           = Some(TRUE)
    /\ SubmittedColumn(<< "public", "Movie", "username" >>).enabled
    /\ SubmittedColumn(<< "public", "Movie", "username" >>).hashed
           = Some(FALSE)
    /\ SubmittedColumn(<< "public", "Movie", "username" >>).is_primary_key
           = Some(TRUE)

\* C4: every schema and every table of the discovered tree is submitted
\* with enabled = true.
C4_SchemasAndTablesEnabled ==
    request # None =>
        \A s \in DOMAIN schema[2].schemas :
            /\ request[2].schemas[s].enabled = TRUE
            /\ \A t \in DOMAIN schema[2].schemas[s].tables :
                   request[2].schemas[s].tables[t].enabled = TRUE

\* C4: two disabled schemas, one with a disabled table whose only column
\* is the excluded one, have been submitted enabled.
C4_Witness ==
    /\ request # None
    /\ DOMAIN schema[2].schemas = {"public", "other"}
    /\ ~schema[2].schemas["public"].enabled
    /\ ~schema[2].schemas["other"].enabled
    /\ "Person" \in DOMAIN schema[2].schemas["public"].tables
    /\ ~schema[2].schemas["public"].tables["Person"].enabled
    /\ DOMAIN schema[2].schemas["public"].tables["Person"].columns
           = {"username"}
    /\ ~SubmittedColumn(<< "public", "Person", "username" >>).enabled
    /\ request[2].schemas["public"].tables["Person"].enabled
    /\ request[2].schemas["other"].enabled

(***************************************************************************)
(* The claim about the age test, under SpecAge.                            *)
(***************************************************************************)
\* seconds between the instant created_at names and now
Age == now - created_at.secs

\* C5 as stated: a resource created exactly 15 minutes ago is old, one
\* created 16 minutes ago is old, one created 14 minutes ago is not.
C5_BoundaryInclusive ==
    (classified # "none" /\ created_at.wellformed) =>
        /\ Age = 15 * 60 => classified = "old"
        /\ Age = 16 * 60 => classified = "old"
        /\ Age = 14 * 60 => classified = "not old"

\* C5 as amended: a resource created exactly 15 minutes ago is not old (the
\* test is num_minutes() > 15 on whole minutes, so a resource is old from 16
\* minutes on); one created 16 minutes ago is old, one created 14 minutes
\* ago is not.
C5_BoundaryExclusive ==
    (classified # "none" /\ created_at.wellformed) =>
        /\ Age = 15 * 60 => classified = "not old"
        /\ Age = 16 * 60 => classified = "old"
        /\ Age = 14 * 60 => classified = "not old"
        /\ classified = "old" <=> Age >= 16 * 60

\* C5: is_old has answered for a resource created exactly 15 minutes ago.
C5_Witness ==
    /\ created_at.wellformed
    /\ Age = 15 * 60
    /\ classified = "not old"

(***************************************************************************)
(* The claims about a run, under Spec.                                     *)
(***************************************************************************)
IsFetch(e) == e.op = "get_connector"
NotFetch(e) == e.op # "get_connector"

\* the requests of a run other than the re-fetches of the two wait loops
RunOrder ==
    << "create_group", "create_destination", "create_connector",
       "reload_connector_schema_config", "update_connector_schema_config",
       "start_sync" >>

Issued(op) == \E i \in 1..Len(issued) : issued[i].op = op

IndexOf(op) == CHOOSE i \in 1..Len(issued) : issued[i].op = op

\* the get_connector requests sent before the schema reload
SetupFetches ==
    Cardinality({ i \in 1..Len(issued) :
                     /\ IsFetch(issued[i])
                     /\ i < IndexOf("reload_connector_schema_config") })

\* the get_connector requests sent so far, before any sync trigger
SetupFetchesSoFar ==
    IF Issued("start_sync")
    THEN Cardinality({ i \in 1..IndexOf("start_sync") : IsFetch(issued[i]) })
    ELSE Cardinality({ i \in 1..Len(issued) : IsFetch(issued[i]) })

\* the position of the first "connected" of a sequence of setup states
FirstConnected(mock) ==
    CHOOSE n \in 1..Len(mock) :
        /\ mock[n] = "connected"
        /\ \A i \in 1..(n - 1) : mock[i] # "connected"

\* the sync of the run ended in the failed state
SyncFailed == pc = "done" /\ logged # "none" /\ connector.failed_at # None

\* C6 as stated: when the sync wait ends in the failed state, what
\* setup_sync returns differs from what it returns after a sync that
\* succeeded, so that the caller can tell the two apart.
C6_FailureReturned ==
    SyncFailed => result # OkResult(group, destination)

\* C6 as amended: when the sync wait ends in the failed state, setup_sync
\* returns Ok with the created group and destination, the same value as
\* after a sync that succeeded; the failure is indicated by the logged line
\* alone.
C6_FailureOnlyLogged ==
    (pc = "done" /\ logged # "none") =>
        /\ result = OkResult(group, destination)
        /\ logged = "failed" <=> connector.failed_at # None
        /\ logged = "succeeded" <=> connector.failed_at = None

\* C6: a run whose sync failed has returned.
C6_Witness ==
    /\ SyncFailed
    /\ connector.succeeded_at = None
    /\ logged = "failed"
    /\ result.tag = "Ok"

\* C7: in the sync wait, while the latest record has succeeded_at and
\* failed_at both unset the next step is a re-fetch of the connector (which
\* ends the run with an error only if the fetch fails); at the first record
\* with one of them set (the PATCH's response included) no further request
\* is sent, setup_sync returns Ok, and the logged line is "failed" when
\* failed_at is set and "succeeded" otherwise.
C7_SyncWaitStops ==
    [][ pc = "sync_wait" =>
          IF connector.succeeded_at = None /\ connector.failed_at = None
          THEN /\ Len(issued') = Len(issued) + 1
               /\ SubSeq(issued', 1, Len(issued)) = issued
               /\ issued'[Len(issued')].op = "get_connector"
               /\ issued'[Len(issued')].arg = connector.id
               /\ logged' = "none"
               /\ \/ pc' = "sync_wait" /\ result' = NoResult
                  \/ /\ pc' = "done"
                     /\ result'.tag = "Err"
                     /\ ~issued'[Len(issued')].ok
          ELSE /\ issued' = issued
               /\ pc' = "done"
               /\ result'.tag = "Ok"
               /\ logged' = IF connector.failed_at # None
                            THEN "failed" ELSE "succeeded" ]_vars

\* C7: a sync wait that re-fetched, then read a record with failed_at set
\* and succeeded_at unset, has ended.
C7_Witness ==
    /\ pc = "done"
    /\ platform.sync_pos >= 2
    /\ connector.failed_at # None
    /\ connector.succeeded_at = None
    /\ logged = "failed"
    /\ result = OkResult(group, destination)

\* C8 as stated: when the setup statuses the platform reports are n - 1
\* statuses other than "connected" followed by "connected", the setup wait
\* sends exactly n get_connector requests before the run goes on.
C8_FetchesEqualStatuses ==
    ( /\ Issued("reload_connector_schema_config")
      /\ "connected" \in { platform.setup_mock[i] :
                              i \in 1..Len(platform.setup_mock) }
      /\ FirstConnected(platform.setup_mock) = Len(platform.setup_mock) )
        => SetupFetches = Len(platform.setup_mock)

\* C8 as amended: the setup wait first tests the record create_connector
\* returned.  If that record is already "connected" it sends no
\* get_connector request; otherwise, when the statuses reported to the
\* fetches are n - 1 statuses other than "connected" followed by
\* "connected", it sends exactly n get_connector requests.  In both cases
\* the run goes on with a record whose setup_state is "connected".
C8_FetchesAfterCreate ==
    Issued("reload_connector_schema_config") =>
        /\ IF platform.created = "connected"
           THEN SetupFetches = 0
           ELSE /\ "connected" \in { platform.setup_mock[i] :
                                        i \in 1..Len(platform.setup_mock) }
                /\ SetupFetches = FirstConnected(platform.setup_mock)
        /\ platform.setup_pos = SetupFetches
        /\ pc \in {"update", "start_sync"} =>
               connector.status.setup_state = "connected"

\* C8: the tested case: created as incomplete, then incomplete, incomplete,
\* connected, and the run went on after three fetches.
C8_Witness ==
    /\ Issued("reload_connector_schema_config")
    /\ platform.created = "incomplete"
    /\ platform.setup_mock = << "incomplete", "incomplete", "connected" >>
    /\ SetupFetches = 3
    /\ pc = "update"

\* the setup states the run has read so far
SetupObserved ==
    { platform.created }
        \cup { Reported(platform.setup_mock, i - 1) : i \in 1..platform.setup_pos }

\* C9: while every setup_state read so far differs from "connected" the run
\* has sent no schema reload, schema update or sync trigger; in the setup
\* wait with such a record the only step is another get_connector (which
\* ends the run with an error only if the fetch fails), and that step is
\* possible after any number of fetches (as far as the model follows them).
C9_SetupWaitUnbounded ==
    /\ [] ( ("connected" \notin SetupObserved) =>
              /\ ~Issued("reload_connector_schema_config")
              /\ ~Issued("update_connector_schema_config")
              /\ ~Issued("start_sync") )
    /\ [] ( ( /\ pc = "setup_wait"
              /\ connector.status.setup_state # "connected"
              /\ SetupFetchesSoFar < MaxFetches ) => ENABLED SetupWait )
    /\ [][ (pc = "setup_wait" /\ connector.status.setup_state # "connected") =>
             /\ Len(issued') = Len(issued) + 1
             /\ issued'[Len(issued')].op = "get_connector"
             /\ \/ pc' = "setup_wait"
                \/ /\ pc' = "done"
                   /\ result'.tag = "Err"
                   /\ ~issued'[Len(issued')].ok ]_vars

\* C9: the setup wait has fetched as often as the model follows it, past
\* the end of the reported statuses, has seen "broken", and is still waiting.
C9_Witness ==
    /\ pc = "setup_wait"
    /\ "connected" \notin SetupObserved
    /\ "broken" \in SetupObserved
    /\ connector.status.setup_state = "broken"
    /\ SetupFetchesSoFar = MaxFetches
    /\ SetupFetchesSoFar > Len(platform.setup_mock)

\* the last request before position i that is not a re-fetch
LastStepBefore(i) ==
    LET j == CHOOSE k \in 1..(i - 1) :
                 /\ NotFetch(issued[k])
                 /\ \A m \in (k + 1)..(i - 1) : IsFetch(issued[m])
    IN  issued[j].op

\* C10: the requests of a run other than the re-fetches are, in this order
\* and each at most once (each exactly once in a run that returned Ok):
\* create group, create destination, create connector, schema reload, schema
\* update, sync trigger; every request but the last returned Ok; the
\* destination and the connector are created with the id of the run's group;
\* the re-fetches come after the create connector (setup wait) or after the
\* sync trigger (sync wait) and address the run's connector; and no schema
\* reload or update is sent before a record with setup_state "connected"
\* has been read.
C10_RunOrder ==
    LET steps == SelectSeq(issued, NotFetch)
    IN  /\ Len(steps) <= Len(RunOrder)
        /\ \A i \in 1..Len(steps) : steps[i].op = RunOrder[i]
        /\ \A i \in 1..(Len(issued) - 1) : issued[i].ok
        /\ \A i \in 1..Len(issued) :
               /\ issued[i].op \in {"create_destination", "create_connector"}
                      => issued[i].arg = group /\ group \in GroupIds
               /\ IsFetch(issued[i])
                      => /\ i > 3
                         /\ LastStepBefore(i) \in {"create_connector", "start_sync"}
               /\ (i > 3 /\ issued[i].ok) => issued[i].arg = connector.id
        /\ ( Issued("reload_connector_schema_config")
             \/ Issued("update_connector_schema_config") )
               => "connected" \in SetupObserved
        /\ (pc = "done" /\ result.tag = "Ok") => Len(steps) = Len(RunOrder)
        /\ (pc = "done" /\ result.tag = "Err") => ~issued[Len(issued)].ok

\* C10: a run of the second group id that waited in both loops has
\* returned Ok.
C10_Witness ==
    /\ pc = "done"
    /\ result = OkResult("g2", destination)
    /\ platform.setup_pos >= 1
    /\ platform.sync_pos >= 1
    /\ Len(issued) >= Len(RunOrder) + 2

(***************************************************************************)
(* The claims about teardown, under SpecTeardown.                          *)
(***************************************************************************)
\* the teardown is the run's cleanup (a sweep has no objects)
Cleaning == group # ""
Sweeping == group = ""

\* the positions of the log that hold a request of operation op
Positions(op) == { i \in 1..Len(issued) : issued[i].op = op }

\* C11: cleanup issues the listing of the run's group, then one delete for
\* each listed connector in the order of the list, then the delete of the
\* run's destination, then the delete of the run's group, and nothing else;
\* every request but the first follows a request that returned Ok, so the
\* destination delete follows the successful delete of every listed
\* connector and the group delete the successful destination delete.
C11_CleanupOrder ==
    Cleaning =>
        \A j \in 1..Len(issued) :
            /\ j <= Len(listed) + 3
            /\ j > 1 => issued[j - 1].ok
            /\ j = 1 => /\ issued[j].op = "list_connectors_of_group"
                        /\ issued[j].arg = group
            /\ (j > 1 /\ j <= Len(listed) + 1) =>
                   /\ issued[j].op = "delete_connector"
                   /\ issued[j].arg = listed[j - 1].id
                   /\ listed[j - 1].group_id = group
            /\ j = Len(listed) + 2 =>
                   /\ issued[j].op = "delete_destination"
                   /\ issued[j].arg = destination
            /\ j = Len(listed) + 3 =>
                   /\ issued[j].op = "delete_group"
                   /\ issued[j].arg = group

\* C11: a cleanup that listed two connectors has returned Ok after its
\* four deletes.
C11_Witness ==
    /\ Cleaning
    /\ pc = "done"
    /\ result = OkUnit
    /\ Len(listed) = 2
    /\ Len(issued) = 5
    /\ issued[5].op = "delete_group"

\* the error the transport makes of the last response
ErrorOf(h) ==
    IF ~h.sent THEN "send failed"
    ELSE IF ~h.decodes THEN "request failed"
    ELSE "request failed: no data"

\* C12: in cleanup and in cleanup_old, a request that failed is the last
\* request of the operation: the operation has returned, with the error of
\* that request, and nothing was asked of the platform after it; and an
\* operation that returned an error did so on its last request.
C12_FailFast ==
    /\ \A j \in 1..Len(issued) :
           ~issued[j].ok =>
               /\ j = Len(issued)
               /\ pc = "done"
               /\ result = ErrResult(ErrorOf(response))
    /\ result.tag = "Err" =>
           /\ Len(issued) >= 1
           /\ ~issued[Len(issued)].ok

\* C12: a sweep has returned the error of a destination delete; the
\* destination and its group are still on the platform, and a second
\* listed destination was never looked at.
C12_Witness ==
    /\ Sweeping
    /\ pc = "done"
    /\ result.tag = "Err"
    /\ issued[Len(issued)].op = "delete_destination"
    /\ Len(listed) = 2
    /\ cursor = 0
    /\ listed[1] \in remote.destinations
    /\ \E g \in remote.groups : g.id = listed[1].group_id

Deletes == {"delete_connector", "delete_destination", "delete_group"}

\* a step that issues a request
Requesting == Len(issued') = Len(issued) + 1

\* C13: whenever a delete is answered with a not-found response, the delete
\* returns Ok and the teardown goes on: it has not returned an error, and
\* it either is at its next statement or has returned Ok.
C13_NotFoundTolerated ==
    [][ (/\ Requesting
         /\ issued'[Len(issued')].op \in Deletes
         /\ NotFound(response'))
        => /\ issued'[Len(issued')].ok
           /\ result'.tag # "Err"
           /\ pc' # "done" \/ result' = OkUnit ]_vars

\* C13: in a sweep the destination delete was answered not-found and the
\* sweep is about to delete the group.
C13_Witness ==
    /\ Sweeping
    /\ pc = "sweep_delete_group"
    /\ NotFound(response)
    /\ issued[Len(issued)].op = "delete_destination"
    /\ issued[Len(issued)].ok

\* the operations of a teardown that expect a payload
PayloadOps == {"list_connectors_of_group", "list_connectors",
               "list_destinations", "get_group"}

\* the payload the last request returned is what the platform holds
PayloadReturned ==
    LET last == issued[Len(issued)] IN
    CASE last.op = "list_connectors_of_group" ->
             listed \in ListingsOf({ c \in remote.connectors :
                                       c.group_id = group })
      [] last.op = "list_connectors" -> listed \in ListingsOf(remote.connectors)
      [] last.op = "list_destinations" ->
             listed \in ListingsOf(remote.destinations)
      [] last.op = "get_group" ->
             fetched \in remote.groups /\ fetched.id = last.arg

\* C14: the last request being one that expects a payload, the call has
\* failed with "request failed" when the answer did not decode (and with the
\* send error when none came), has failed with the different error
\* "request failed: no data" when the envelope decoded without data, and has
\* returned the payload exactly when the envelope decoded with data.
C14_PayloadOrError ==
    (Len(issued) >= 1 /\ issued[Len(issued)].op \in PayloadOps) =>
        LET last == issued[Len(issued)] IN
        /\ ~response.sent =>
               ~last.ok /\ result = ErrResult("send failed")
        /\ (response.sent /\ ~response.decodes) =>
               ~last.ok /\ result = ErrResult("request failed")
        /\ (response.decodes /\ ~response.data) =>
               ~last.ok /\ result = ErrResult("request failed: no data")
        /\ (response.decodes /\ response.data) =>
               last.ok /\ result.tag # "Err" /\ PayloadReturned
        /\ last.ok => response.decodes /\ response.data

\* C14: get_group was answered 200 with an envelope of code Success and no
\* data, and the sweep has returned the missing-data error.
C14_Witness ==
    /\ pc = "done"
    /\ Len(issued) >= 1
    /\ issued[Len(issued)].op = "get_group"
    /\ Success(response)
    /\ ~response.data
    /\ result = ErrResult("request failed: no data")

\* C15: the last request being one that expects a payload and its answer a
\* remote-reported failure (a non-2xx status, or an error code in the
\* envelope), the call has not returned success, and has failed with the
\* missing-data error if the envelope decoded, whatever its data.
C15_RemoteFailureIsError ==
    (/\ Len(issued) >= 1
     /\ issued[Len(issued)].op \in PayloadOps
     /\ RemoteFailure(response)) =>
        /\ ~issued[Len(issued)].ok
        /\ response.decodes => result = ErrResult("request failed: no data")

(***************************************************************************)
(* The claim about retries, under Spec.                                    *)
(***************************************************************************)
\* C16: a request of the run that failed is its last request and the run
\* has returned an error; a request is issued only after a request that
\* returned Ok; no operation but the fetch of the connector is requested
\* twice; and a fetch is issued only after a successful create_connector,
\* start_sync or fetch whose record showed the state the loop waits on not
\* yet reached.
C16_NoRetry ==
    /\ [](\A j \in 1..Len(issued) :
             ~issued[j].ok =>
                 /\ j = Len(issued)
                 /\ pc = "done"
                 /\ result.tag = "Err")
    /\ [][ Requesting =>
             LET new == issued'[Len(issued')] IN
             /\ Len(issued) >= 1 => issued[Len(issued)].ok
             /\ new.op # "get_connector" => Positions(new.op) = {}
             /\ new.op = "get_connector" =>
                    /\ Len(issued) >= 1
                    /\ issued[Len(issued)].op \in
                           {"create_connector", "start_sync", "get_connector"}
                    /\ \/ /\ pc = "setup_wait"
                          /\ connector.status.setup_state # "connected"
                       \/ /\ pc = "sync_wait"
                          /\ connector.failed_at = None
                          /\ connector.succeeded_at = None ]_vars

\* C16: a re-fetch inside the second wait loop failed after an earlier
\* re-fetch of that loop had succeeded, and the run has returned the error.
C16_Witness ==
    /\ pc = "done"
    /\ result.tag = "Err"
    /\ platform.sync_pos >= 1
    /\ Len(issued) >= 1
    /\ issued[Len(issued)].op = "get_connector"
    /\ ~issued[Len(issued)].ok
    /\ Positions("start_sync") # {}

(***************************************************************************)
(* The claims about the retention sweeper, under SpecTeardown.             *)
(***************************************************************************)
IsConnectorAnswer(j) == j.kind = "connector"
IsGroupAnswer(j) == j.kind = "group"
IsOldAnswer(j) == j.old
IsDeleteConnector(e) == e.op = "delete_connector"
IsDeleteDestination(e) == e.op = "delete_destination"
IsDeleteGroup(e) == e.op = "delete_group"

\* the answers of is_old about connectors, and about groups, in order
ConnectorAnswers == SelectSeq(judged, IsConnectorAnswer)
GroupAnswers == SelectSeq(judged, IsGroupAnswer)

IdsOf(answers) == [i \in 1..Len(answers) |-> answers[i].id]
ArgsOf(requests) == [i \in 1..Len(requests) |-> requests[i].arg]

\* the listed destinations whose group was answered old, in order
GroupOldAt(i) == GroupAnswers[i].old
OldDestinations ==
    LET idx == SelectSeq([i \in 1..Len(listed) |-> i], GroupOldAt)
    IN  [k \in 1..Len(idx) |-> listed[idx[k]]]

\* whole minutes between the instant a created_at names and the instant t
MinutesAt(c, t) == (t - c.secs) \div 60

\* the sweep has returned Ok
Swept == Sweeping /\ pc = "done" /\ result = OkUnit

\* C17: in a sweep, every answer of is_old is old exactly for a created_at
\* that does not parse or is more than 15 whole minutes before the answer,
\* and the connector deletes issued are exactly the connectors answered
\* old, in order; when the sweep goes from its first loop to its second it
\* has an answer for every listed connector; and when it has returned Ok it
\* has an answer for the group of every listed destination, and the
\* destination deletes and the group deletes issued are exactly those of
\* the destinations whose group was answered old, in order.
C17_SweepExact ==
    /\ [](Sweeping =>
            /\ \A i \in 1..Len(judged) :
                   judged[i].old <=>
                       \/ ~judged[i].created_at.wellformed
                       \/ MinutesAt(judged[i].created_at, judged[i].at) > 15
            /\ ArgsOf(SelectSeq(issued, IsDeleteConnector))
                   = IdsOf(SelectSeq(ConnectorAnswers, IsOldAnswer))
            /\ Swept =>
                   /\ Len(GroupAnswers) = Len(listed)
                   /\ \A i \in 1..Len(listed) :
                          GroupAnswers[i].id = listed[i].group_id
                   /\ ArgsOf(SelectSeq(issued, IsDeleteDestination))
                          = [k \in 1..Len(OldDestinations) |->
                                OldDestinations[k].id]
                   /\ ArgsOf(SelectSeq(issued, IsDeleteGroup))
                          = [k \in 1..Len(OldDestinations) |->
                                OldDestinations[k].group_id])
    /\ [][ (pc = "sweep_connectors" /\ pc' = "sweep_destinations") =>
               IdsOf(ConnectorAnswers) = [i \in 1..Len(listed) |-> listed[i].id]
         ]_vars

\* C17: a sweep has returned Ok having kept a connector it answered not old
\* and deleted the destination and the group of a group it answered old.
C17_Witness ==
    /\ Swept
    /\ Len(ConnectorAnswers) = 1
    /\ ~ConnectorAnswers[1].old
    /\ ConnectorAnswers[1].created_at.wellformed
    /\ Positions("delete_connector") = {}
    /\ Len(GroupAnswers) = 1
    /\ GroupAnswers[1].old
    /\ GroupAnswers[1].created_at.wellformed
    /\ Positions("delete_destination") # {}
    /\ Positions("delete_group") # {}

\* C18: a sweep that comes to a listed connector whose created_at does not
\* parse answers old and issues the delete of that connector, and one that
\* has fetched a group whose created_at does not parse answers old and
\* goes on to delete the destination; neither step returns an error unless
\* the delete request itself failed.
C18_UnparseableIsOld ==
    [][ /\ (/\ Sweeping
            /\ pc = "sweep_connectors"
            /\ cursor < Len(listed)
            /\ ~listed[cursor + 1].created_at.wellformed)
           => /\ Requesting
              /\ issued'[Len(issued')].op = "delete_connector"
              /\ issued'[Len(issued')].arg = listed[cursor + 1].id
              /\ judged'[Len(judged')].old
              /\ result'.tag = "Err" => ~issued'[Len(issued')].ok
        /\ (/\ Sweeping
            /\ pc = "sweep_is_old"
            /\ ~fetched.created_at.wellformed)
           => /\ pc' = "sweep_delete_destination"
              /\ judged'[Len(judged')].old
              /\ result'.tag # "Err" ]_vars

\* C18: a sweep has returned Ok after deleting a connector whose created_at
\* does not parse; the connector is gone from the platform.
C18_Witness ==
    /\ Swept
    /\ Len(ConnectorAnswers) >= 1
    /\ ~ConnectorAnswers[1].created_at.wellformed
    /\ ConnectorAnswers[1].old
    /\ Positions("delete_connector") # {}
    /\ \A c \in remote.connectors : c.id # ConnectorAnswers[1].id

\* C19: in a sweep, when the delete of a group has just been issued, the
\* platform holds no connector of that group.
C19_ConnectorsBeforeGroup ==
    (/\ Sweeping
     /\ Len(issued) >= 1
     /\ issued[Len(issued)].op = "delete_group") =>
        \A c \in remote.connectors : c.group_id # issued[Len(issued)].arg

\* C20: in a sweep, every group delete comes right after a destination
\* delete that returned Ok, and the two are the deletes of one listed
\* destination, whose group was answered old, and of the group of that
\* destination.
C20_DestinationBeforeGroup ==
    Sweeping =>
        \A p \in Positions("delete_group") :
            /\ p > 1
            /\ issued[p - 1].op = "delete_destination"
            /\ issued[p - 1].ok
            /\ \E k \in 1..Len(listed) :
                   /\ listed[k].id = issued[p - 1].arg
                   /\ listed[k].group_id = issued[p].arg
                   /\ k <= Len(GroupAnswers)
                   /\ GroupAnswers[k].old

\* C20: a sweep has returned Ok having deleted a destination and then its
\* group, and the platform holds neither.
C20_Witness ==
    /\ Swept
    /\ Len(issued) >= 2
    /\ issued[Len(issued)].op = "delete_group"
    /\ issued[Len(issued)].ok
    /\ issued[Len(issued) - 1].op = "delete_destination"
    /\ \A d \in remote.destinations : d.id # issued[Len(issued) - 1].arg
    /\ \A g \in remote.groups : g.id # issued[Len(issued)].arg

(***************************************************************************)
(* The claims about main, under SpecMain.                                  *)
(***************************************************************************)
\* main awaited `call` and it returned `tag`
HasReturned(call, tag) ==
    \E i \in 1..Len(returned) : returned[i] = Returned(call, tag)

\* main has called `call`: it is awaiting it, or it has returned
HasCalled(call) ==
    main = call \/ \E i \in 1..Len(returned) : returned[i].call = call

\* the requests cleanup issues
CleanupOps == Deletes \cup {"list_connectors_of_group"}

\* main has returned the error of the call it awaited last
ExitedWithError ==
    /\ main = "exit"
    /\ pc = "idle"
    /\ returned # << >>
    /\ returned[Len(returned)].tag = "Err"

\* C26: main calls cleanup if and only if setup_sync returned Ok; once
\* setup_sync has returned an error, main has returned that error, cleanup
\* has not been called, and no request of a teardown follows the run's
\* create_group in the log: nothing the run created is asked to be deleted.
C26_CleanupIffRunOk ==
    /\ HasCalled("cleanup") <=> HasReturned("setup_sync", "Ok")
    /\ HasReturned("setup_sync", "Err") =>
           /\ ExitedWithError
           /\ returned[Len(returned)].call = "setup_sync"
           /\ \A i \in 1..Len(issued) :
                  issued[i].op \in CleanupOps =>
                      i < IndexOf("create_group")

\* C26: setup_sync failed after it had created its group, main has returned,
\* and the platform holds that group.
C26_Witness ==
    /\ HasReturned("setup_sync", "Err")
    /\ main = "exit"
    /\ group # ""
    /\ \E g \in remote.groups : g.id = group

\* the last request of the log is a get_group that failed
GetGroupFailed ==
    /\ issued # << >>
    /\ issued[Len(issued)].op = "get_group"
    /\ ~issued[Len(issued)].ok

\* C27: a get_group of the sweep that fails is its last request: cleanup_old
\* has returned the error with the destination whose group it asked for
\* still on the platform and no delete of it requested, and with no
\* get_group issued for the destinations listed after it; main returns that
\* error, and no create has been issued.
C27_GetGroupFailureAborts ==
    /\ \A p \in Positions("get_group") : ~issued[p].ok => p = Len(issued)
    /\ GetGroupFailed =>
           /\ group = ""
           /\ ~Issued("create_group")
           /\ \/ /\ main = "cleanup_old"
                 /\ pc = "done"
                 /\ result.tag = "Err"
                 /\ cursor < Len(listed)
                 /\ listed[cursor + 1].group_id = issued[Len(issued)].arg
                 /\ listed[cursor + 1] \in remote.destinations
                 /\ \A p \in Positions("delete_destination") :
                        issued[p].arg # listed[cursor + 1].id
                 /\ Cardinality(Positions("get_group")) = cursor + 1
              \/ /\ ExitedWithError
                 /\ returned = << Returned("cleanup_old", "Err") >>

\* C27: the sweep listed two destinations and the group of the first is not
\* on the platform; get_group came back without data, and main has
\* returned the error with both destinations on the platform.
C27_Witness ==
    /\ GetGroupFailed
    /\ ExitedWithError
    /\ Cardinality(Positions("get_group")) = 1
    /\ Cardinality(remote.destinations) = 2
    /\ \A g \in remote.groups : g.id # issued[Len(issued)].arg

\* the calls main awaits, in the order of its source
MainOrder ==
    << "cleanup_old", "init_bore", "setup_sync", "cleanup", "validate_data" >>

\* the sync of the run ended with failed_at set
SyncFailedLogged == logged = "failed"

\* C29: what main has awaited so far is a prefix of: the sweeper, the
\* servers and tunnels, the run, the teardown, the validation; every call
\* but the last one returned Ok, and main is awaiting the next call of that
\* order unless the last one returned an error or was the validation.  A
\* run whose sync failed returns Ok like any other, so after it main calls
\* the teardown, and after a teardown that returned Ok the validation.
C29_PhaseOrder ==
    /\ Len(returned) <= Len(MainOrder)
    /\ \A i \in 1..Len(returned) :
           /\ returned[i].call = MainOrder[i]
           /\ i < Len(returned) => returned[i].tag = "Ok"
    /\ IF returned # << >> /\ returned[Len(returned)].tag = "Err"
       THEN main = "exit"
       ELSE IF Len(returned) = Len(MainOrder)
            THEN main = "exit"
            ELSE main = MainOrder[Len(returned) + 1]
    /\ (SyncFailedLogged /\ main # "setup_sync") =>
           /\ HasReturned("setup_sync", "Ok")
           /\ HasCalled("cleanup")
    /\ (SyncFailedLogged /\ HasReturned("cleanup", "Ok")) =>
           HasCalled("validate_data")

\* C29: the sync of the run failed, the teardown returned Ok and the
\* validation has been run.
C29_Witness ==
    /\ SyncFailedLogged
    /\ HasReturned("cleanup", "Ok")
    /\ \E i \in 1..Len(returned) : returned[i].call = "validate_data"
    /\ main = "exit"

\* the requests cleanup has issued so far: those after its listing
CleanupRequests ==
    { p \in 1..Len(issued) :
        Issued("list_connectors_of_group")
            /\ p > IndexOf("list_connectors_of_group") }

\* the resources of the groups other than the run's
OfOtherGroups(r) ==
    [connectors |-> { c \in r.connectors : c.group_id # group },
     destinations |-> { d \in r.destinations : d.group_id # group },
     groups |-> { g \in r.groups : g.id # group }]

\* C28: the listing of cleanup is asked for the run's group and every
\* listed connector is of that group; a connector delete of cleanup names a
\* listed connector, its destination delete names the destination the run
\* created and its group delete the group the run created; and no step of
\* cleanup changes the connectors, destinations and groups of other groups.
C28_CleanupFrame ==
    /\ [](/\ \A p \in Positions("list_connectors_of_group") :
                issued[p].arg = group
          /\ main = "cleanup" =>
                /\ \A k \in 1..Len(listed) : listed[k].group_id = group
                /\ \A p \in CleanupRequests :
                      /\ issued[p].op \in Deletes
                      /\ issued[p].op = "delete_connector" =>
                            \E k \in 1..Len(listed) :
                                listed[k].id = issued[p].arg
                      /\ issued[p].op = "delete_destination" =>
                            issued[p].arg = destination
                      /\ issued[p].op = "delete_group" =>
                            issued[p].arg = group)
    /\ [][main = "cleanup" => OfOtherGroups(remote') = OfOtherGroups(remote)]_vars

\* C28: cleanup has returned Ok having deleted the run's connector,
\* destination and group, and the platform holds what it held of another
\* group: a connector, a destination and the group itself.
C28_Witness ==
    /\ HasReturned("cleanup", "Ok")
    /\ \E p \in CleanupRequests : issued[p].op = "delete_connector"
    /\ \A g \in remote.groups : g.id # group
    /\ OfOtherGroups(remote).connectors # {}
    /\ OfOtherGroups(remote).destinations # {}
    /\ OfOtherGroups(remote).groups # {}

\* the functions of fivetran.rs main has called so far
CoreCalls == { call \in {"cleanup_old", "setup_sync", "cleanup"} : HasCalled(call) }

\* C25, as claimed: the process constructs one client, and the sweeper, the
\* run and the teardown issue their requests through it.
C25_OneClient == clients = 1

\* C25, as the code has it: every function of the three that main has
\* called constructed a client of its own, so the process has constructed
\* as many clients as it has called functions; and a step that issues a
\* request constructs none: the requests of one function share its client.
C25_ClientPerOperation ==
    /\ [](clients = Cardinality(CoreCalls))
    /\ [][Requesting => clients' = clients]_vars

\* C25: the sweeper, the run and the teardown have each issued requests and
\* returned Ok, and the process has constructed three clients.
C25_Witness ==
    /\ HasReturned("cleanup", "Ok")
    /\ Issued("list_connectors")
    /\ Issued("create_group")
    /\ Issued("delete_group")
    /\ clients = 3

(***************************************************************************)
(* The claims about a run and its sync trigger, under Spec.                *)
(***************************************************************************)
\* the schema update of the run returned Ok: the platform answered it with
\* the configuration it now holds
SchemaAccepted ==
    \E p \in Positions("update_connector_schema_config") : issued[p].ok

\* the platform holds the connector of the run
ConnectorCreated ==
    \E p \in Positions("create_connector") : issued[p].ok

\* C22: a run sends at most one start_sync PATCH, right after the schema
\* update that returned Ok, so after every fetch of the first wait loop and
\* before every fetch of the second; its body sets is_historical_sync to
\* true and paused to false.  The connector is created paused and stays
\* paused until that PATCH: whenever the platform holds it unpaused, the
\* schema update has returned Ok and the PATCH was sent; and a run that is
\* in its second wait loop, or has returned Ok, has sent exactly one PATCH,
\* applied by the platform.
C22_OneTriggerAfterSchema ==
    /\ Cardinality(Positions("start_sync")) <= 1
    /\ \A p \in Positions("start_sync") :
           /\ p > 1
           /\ issued[p - 1].op = "update_connector_schema_config"
           /\ issued[p - 1].ok
           /\ \A q \in Positions("get_connector") :
                  q < p <=> q < IndexOf("reload_connector_schema_config")
    /\ (ConnectorCreated /\ ~Issued("start_sync")) =>
           platform.paused = Some(TRUE)
    /\ platform.paused = Some(FALSE) =>
           /\ SchemaAccepted
           /\ Issued("start_sync")
           /\ platform.is_historical_sync = Some(TRUE)
    /\ (pc = "sync_wait" \/ result.tag = "Ok") =>
           /\ Cardinality(Positions("start_sync")) = 1
           /\ issued[IndexOf("start_sync")].ok
           /\ platform.paused = Some(FALSE)

\* C22: a run has waited for the setup, had its schema update accepted, sent
\* the PATCH, fetched the connector in the second wait loop and returned Ok
\* with the connector unpaused on the platform.
C22_Witness ==
    /\ result.tag = "Ok"
    /\ platform.setup_pos >= 1
    /\ platform.sync_pos >= 1
    /\ SchemaAccepted
    /\ platform.paused = Some(FALSE)
    /\ platform.is_historical_sync = Some(TRUE)

(***************************************************************************)
(* The claim about the termination of a run, under SpecFair.               *)
(***************************************************************************)
\* a call of the run has failed
CallFailed == \E i \in 1..Len(issued) : ~issued[i].ok

\* the platform holds the connector and never reports it connected
NeverConnected ==
    /\ ConnectorCreated
    /\ platform.created # "connected"
    /\ \A i \in 1..Len(platform.setup_mock) :
           platform.setup_mock[i] # "connected"

\* the sync was triggered and the platform never sets succeeded_at or
\* failed_at
NeverSynced ==
    /\ \E p \in Positions("start_sync") : issued[p].ok
    /\ connector.succeeded_at = None
    /\ connector.failed_at = None
    /\ \A i \in 1..Len(platform.sync_mock) :
           platform.sync_mock[i] = NotSynced

\* setup_sync has returned Ok with the group and the destination it created
RunReturnedOk ==
    /\ pc = "done"
    /\ group # ""
    /\ destination # ""
    /\ result = OkResult(group, destination)

\* C30: under fair scheduling, a run in which no call fails, to which the
\* platform reports the connector connected at some fetch and, after the
\* trigger, succeeded_at or failed_at at some fetch, returns Ok with the
\* group and the destination it created: every fair behaviour reaches a
\* failed call, a platform that never connects or never ends the sync, or
\* that return.
C30_RunTerminates ==
    <>(CallFailed \/ NeverConnected \/ NeverSynced \/ RunReturnedOk)

\* C30: a run has polled in both wait loops, no call has failed, and it has
\* returned Ok with its group and its destination.
C30_Witness ==
    /\ RunReturnedOk
    /\ ~CallFailed
    /\ platform.setup_pos >= 2
    /\ platform.sync_pos >= 2

(***************************************************************************)
(* The claim about a sweeper next to a run, under SpecConcurrent.          *)
(***************************************************************************)
\* the position of the run, scheduled or not
RunPc == IF parked.proc = "run" THEN parked.pc ELSE pc

RunInProgress == RunPc \in {"setup_wait", "sync_wait"}

\* the platform holds the group, the destination and the connector of the run
RunResourcesHeld ==
    /\ \E g \in remote.groups : g.id = group
    /\ \E d \in remote.destinations : d.id = destination
    /\ \E c \in remote.connectors : c.id = connector.id

\* a created_at outside the age window now: it does not parse, or it is
\* more than 15 minutes in the past
OutsideWindow(s) == ~s.wellformed \/ (now - s.secs) \div 60 > 15

\* C21, as claimed: while the run is in progress, the platform holds its
\* group, its destination and its connector: the sweeper of the other
\* process has deleted none of them.
C21_SweeperSparesRun == RunInProgress => RunResourcesHeld

\* C21, as the code has it: a step of the sweeper that takes a connector
\* off the platform while the run is in progress takes one whose
\* created_at is outside the age window, and one that takes a destination
\* or a group takes one whose group's created_at is outside the age
\* window; what is inside the window stays.
C21_SweeperSparesYoungRun ==
    [][ RunInProgress =>
          /\ \A c \in remote.connectors \ remote'.connectors :
                 OutsideWindow(c.created_at)
          /\ \A g \in remote.groups \ remote'.groups :
                 OutsideWindow(g.created_at)
          /\ \A d \in remote.destinations \ remote'.destinations :
                 \E g \in remote.groups :
                     g.id = d.group_id /\ OutsideWindow(g.created_at) ]_vars

\* C21: the run is still in its wait loop, its created_at strings parse,
\* and the sweeper has returned Ok having deleted its connector, its
\* destination and its group, all more than 15 minutes old.
C21_Witness ==
    /\ RunInProgress
    /\ parked.proc = "sweeper"
    /\ parked.pc = "done"
    /\ parked.result = OkUnit
    /\ remote = NoRemote
    /\ \A i \in 1..Len(judged) : judged[i].created_at.wellformed
    /\ Issued("delete_group")
    /\ issued[Len(issued)].op = "get_connector"

====
